---------------------------- MODULE Spec2Model ----------------------------
(***************************************************************************)
(* A model of src/src/nwscript/disassembler.cpp (xoreos-tools): the four   *)
(* output modes of NWScript::Disassembler over an analysed NCS program.    *)
(*                                                                         *)
(* The program (instructions, blocks, subroutines) is read-only input; it  *)
(* is drawn in the initial state.  Every output sink is a sequence of      *)
(* tokens, one token (or a few) per writeString call of the source.        *)
(* Strings returned by helpers that live outside this file are opaque      *)
(* tokens; a helper's "empty string" is the empty sequence.                *)
(***************************************************************************)
EXTENDS Integers, Sequences, FiniteSets, TLC

VARIABLES prog, pc, out, arg, stack

vars == <<prog, pc, out, arg, stack>>

Modes == {"listing", "assembly", "dot", "nss"}

(***************************************************************************)
(* Sequence helpers                                                        *)
(***************************************************************************)
RECURSIVE Flatten(_)
Flatten(ss) == IF ss = <<>> THEN <<>> ELSE Head(ss) \o Flatten(Tail(ss))

RECURSIVE SeqsUpTo(_, _)
SeqsUpTo(S, n) ==
  IF n = 0 THEN {<<>>}
  ELSE LET shorter == SeqsUpTo(S, n - 1)
       IN  shorter \cup {Append(s, x) : s \in {t \in shorter : Len(t) = n - 1}, x \in S}

Range(s) == {s[i] : i \in 1..Len(s)}

(***************************************************************************)
(* Number formatting: Common::composeString (decimal) and printf's %08X.   *)
(* A size_t is kept modulo 2^64: a negative integer v stands for the       *)
(* residue 2^64 + v, which is what the unsigned subtraction leaves.        *)
(***************************************************************************)
DecChars == <<"0", "1", "2", "3", "4", "5", "6", "7", "8", "9">>

HexChars == <<"0", "1", "2", "3", "4", "5", "6", "7", "8", "9",
              "A", "B", "C", "D", "E", "F">>

\* the decimal digits of 2^64 = 18446744073709551616
TwoPow64Digits == <<1, 8, 4, 4, 6, 7, 4, 4, 0, 7, 3, 7, 0, 9, 5, 5, 1, 6, 1, 6>>

RECURSIVE DecDigits(_)
DecDigits(n) == IF n < 10 THEN <<n>> ELSE Append(DecDigits(n \div 10), n % 10)

RECURSIVE DigitsMinus(_, _)
DigitsMinus(D, m) ==
  IF m = 0 THEN D
  ELSE LET n == Len(D)
           d == D[n] - (m % 10)
           borrow == IF d < 0 THEN 1 ELSE 0
       IN  Append(DigitsMinus(SubSeq(D, 1, n - 1), (m \div 10) + borrow), d + 10 * borrow)

composeString(v) ==
  LET ds == IF v >= 0 THEN DecDigits(v) ELSE DigitsMinus(TwoPow64Digits, -v)
  IN  [i \in 1..Len(ds) |-> DecChars[ds[i] + 1]]

Pow16(e) == CASE e = 0 -> 1 [] e = 1 -> 16 [] e = 2 -> 256 [] e = 3 -> 4096
              [] e = 4 -> 65536 [] e = 5 -> 1048576 [] e = 6 -> 16777216
              [] e = 7 -> 268435456

Hex8(a) == [i \in 1..8 |-> HexChars[((a \div Pow16(8 - i)) % 16) + 1]]

\* ceil(a / (double) b) for sizes far below 2^53, where the division is exact
CeilDiv(a, b) == (a + b - 1) \div b


(***************************************************************************)
(* The data model the Disassembler reads (an NCSFile).  Pointers are       *)
(* indices: a Block* is an index into prog.blocks, a SubRoutine* an index  *)
(* into prog.subRoutines, an Instruction* an index into prog.instructions; *)
(* 0 is the null pointer.                                                  *)
(***************************************************************************)
BlockEdgeTypes == {"Unconditional", "ConditionalTrue", "ConditionalFalse",
                   "SubRoutineCall", "SubRoutineTail", "SubRoutineStore", "Dead",
                   "Unlisted"}

ControlTypes == {"None", "DoWhileHead", "DoWhileTail", "DoWhileNext", "WhileHead",
                 "WhileTail", "WhileNext", "Break", "Continue", "Return", "IfCond",
                 "IfTrue", "IfElse", "IfNext", "Unlisted"}

SubRoutineTypes == {"None", "Start", "Global", "StoreState"}

StackAnalyzeStates == {"None", "Start", "Finished", "Failed"}

BlockAt(p, b) == p.blocks[b]

InstrAt(p, i) == p.instructions[i]

SubAt(p, s) == p.subRoutines[s]

(***************************************************************************)
(* Helpers declared in src/nwscript/util.h.  Their text is opaque.         *)
(***************************************************************************)
\* formatJumpLabelName(x): the label the analysis gave x, or empty
formatJumpLabelName(x) == x.label

formatJumpDestination(address) == <<[t |-> "loc", v |-> Hex8(address)]>>

\* formatSignature(sub): the signature line of an analysed subroutine
formatSignature(sub) == <<[t |-> "sig", v |-> Hex8(sub.address)]>>

\* formatSignature(sub, game, true): the NSS header of a subroutine
formatSignatureNSS(sub) == <<[t |-> "nsssig", v |-> Hex8(sub.address)]>>

formatInstruction(instr) == [t |-> "ins", v |-> Hex8(instr.address)]

formatBytes(instr) == [t |-> "bytes", v |-> Hex8(instr.address)]

formatVariableName(var) == [t |-> "var", v |-> composeString(var.id)]

getVariableTypeName(type) == [t |-> "type", v |-> type]

formatInstructionData(instr) == [t |-> "data", v |-> Hex8(instr.address)]

getFunctionName(id) == [t |-> "function", v |-> composeString(id)]

isSubRoutineCall(type) == type = "SubRoutineCall"

(***************************************************************************)
(* getSignature (both overloads)                                           *)
(***************************************************************************)
\* a faulty variant of getSignature, without the test of hasStackAnalysis: the properties must tell it apart
getSignatureNoAnalysisCheck(p, sub) ==
  IF sub.type \in {"Start", "Global", "StoreState"} THEN <<>>
  ELSE IF sub.stackAnalyzeState # "Finished" THEN <<>>
  ELSE formatSignature(sub)

getSignature(p, sub) ==
  IF ~p.hasStackAnalysis THEN <<>>
  ELSE IF sub.type \in {"Start", "Global", "StoreState"} THEN <<>>
  ELSE IF sub.stackAnalyzeState # "Finished" THEN <<>>
  ELSE formatSignature(sub)

getSignatureInstr(p, instr) ==
  IF ~p.hasStackAnalysis THEN <<>>
  ELSE IF instr.addressType # "SubRoutine" \/ instr.block = 0
          \/ BlockAt(p, instr.block).subRoutine = 0 THEN <<>>
  ELSE getSignature(p, SubAt(p, BlockAt(p, instr.block).subRoutine))

(***************************************************************************)
(* createDot                                                               *)
(***************************************************************************)
kMaxNodeSize == 10

calculateNodesPerBlock(blockSize) == CeilDiv(blockSize, kMaxNodeSize)

\* "b%08X_%s" of a block address and a node index (a size_t)
blockNodeName(address, index) == [addr |-> Hex8(address), idx |-> composeString(index)]

controlTag(type) ==
  CASE type = "None"        -> "<NONE>"
    [] type = "DoWhileHead" -> "<DOWHILEHEAD>"
    [] type = "DoWhileTail" -> "<DOWHILETAIL>"
    [] type = "DoWhileNext" -> "<DOWHILENEXT>"
    [] type = "WhileHead"   -> "<WHILEHEAD>"
    [] type = "WhileTail"   -> "<WHILETAIL>"
    [] type = "WhileNext"   -> "<WHILENEXT>"
    [] type = "Break"       -> "<BREAK>"
    [] type = "Continue"    -> "<CONTINUE>"
    [] type = "Return"      -> "<RETURN>"
    [] type = "IfCond"      -> "<IFCOND>"
    [] type = "IfTrue"      -> "<IFTRUE>"
    [] type = "IfElse"      -> "<IFELSE>"
    [] type = "IfNext"      -> "<IFNEXT>"
    [] OTHER                -> "<>"

getBlockControl(block) ==
  LET control == Flatten([c \in 1..Len(block.controls) |->
                    <<[t |-> "tag", v |-> controlTag(block.controls[c].type)],
                      [t |-> "tag", v |-> "\\n"]>>])
  IN  IF control # <<>> THEN Append(control, [t |-> "tag", v |-> "\\n"]) ELSE control

\* a faulty variant of linesPerNodeOf, filling every node up to the node size: the
\* properties must tell it apart
linesPerNodeFull(size, nodeCount) == kMaxNodeSize

\* linesPerNode of writeDotBlocks: ceil(size / (double) nodeCount)
linesPerNodeOf(size, nodeCount) == CeilDiv(size, nodeCount)

\* a faulty variant of subdivisionEdge, chaining a single node too: the properties
\* must tell it apart
subdivisionEdgeOfAnyBlock(address, nodeCount) ==
  IF nodeCount > 0
  THEN <<[t |-> "chain",
          names |-> [i \in 1..nodeCount |-> blockNodeName(address, i - 1)],
          attr |-> " [ style=dotted ]\n"]>>
  ELSE <<>>

\* the edges between the nodes of a divided block: one line, the names of the nodes
\* joined by " -> ", then the attribute
subdivisionEdge(address, nodeCount) ==
  IF nodeCount > 1
  THEN <<[t |-> "chain",
          names |-> [i \in 1..nodeCount |-> blockNodeName(address, i - 1)],
          attr |-> " [ style=dotted ]\n"]>>
  ELSE <<>>

\* One pass of the loop of writeDotBlocks, for the block at position n of blocks.
\* A block without instructions makes nodeCount 0: labels is empty, and labels[0]
\* and instructions.front() are undefined behaviour.  ub is what the build makes
\* of it: "crash" ends the process there, "survive" lets the loop go on.
writeDotBlock(p, printControlTypes, blocks, n, ub) ==
  LET block        == BlockAt(p, blocks[n])
      k            == Len(block.instructions)
      nodeCount    == calculateNodesPerBlock(k)
      undefined    == nodeCount = 0
      linesPerNode == linesPerNodeOf(k, nodeCount)
      control      == IF printControlTypes THEN getBlockControl(block) ELSE <<>>
      name         == IF formatJumpLabelName(block) # <<>>
                      THEN formatJumpLabelName(block)
                      ELSE formatJumpDestination(
                             InstrAt(p, block.instructions[1]).address)
      head         == control \o name \o <<[t |-> "tag", v |-> ":\\l"]>>
      lines(i)     == LET js == {j \in 0..(k - 1) : j \div linesPerNode = i}
                      IN  [m \in 1..Cardinality(js) |->
                             formatInstruction(InstrAt(p,
                               block.instructions[i * linesPerNode + m])) ]
      label(i)     == (IF i = 0 THEN head ELSE <<>>) \o lines(i)
      nodes        == [i \in 1..nodeCount |->
                         [t |-> "node", name |-> blockNodeName(block.address, i - 1),
                          label |-> label(i - 1)]]
      chain        == subdivisionEdge(block.address, nodeCount)
      sep          == IF n # Len(blocks) THEN <<[t |-> "text", v |-> "\n"]>> ELSE <<>>
  IN  IF undefined
      THEN [lines |-> IF ub = "crash" THEN <<>> ELSE sep, crashed |-> ub = "crash"]
      ELSE [lines |-> nodes \o chain \o sep, crashed |-> FALSE]

RECURSIVE writeDotBlocksFrom(_, _, _, _, _)
writeDotBlocksFrom(p, printControlTypes, blocks, n, ub) ==
  IF n > Len(blocks) THEN [lines |-> <<>>, crashed |-> FALSE]
  ELSE LET this == writeDotBlock(p, printControlTypes, blocks, n, ub)
       IN  IF this.crashed THEN this
           ELSE LET rest == writeDotBlocksFrom(p, printControlTypes, blocks, n + 1, ub)
                IN  [lines |-> this.lines \o rest.lines, crashed |-> rest.crashed]

writeDotBlocks(p, printControlTypes, blocks, ub) ==
  writeDotBlocksFrom(p, printControlTypes, blocks, 1, ub)

\* the test that skips a subroutine in writeDotClusteredBlocks
clusterSkipped(p, sub) ==
  sub.blocks = <<>> \/ BlockAt(p, sub.blocks[1]).instructions = <<>>

clusterLabel(p, sub) ==
  IF getSignature(p, sub) # <<>> THEN getSignature(p, sub)
  ELSE IF formatJumpLabelName(sub) # <<>> THEN formatJumpLabelName(sub)
  ELSE formatJumpDestination(sub.address)

RECURSIVE writeDotClustersFrom(_, _, _, _)
writeDotClustersFrom(p, printControlTypes, s, ub) ==
  IF s > Len(p.subRoutines) THEN [lines |-> <<>>, crashed |-> FALSE]
  ELSE LET sub == SubAt(p, s)
       IN  IF clusterSkipped(p, sub)
           THEN writeDotClustersFrom(p, printControlTypes, s + 1, ub)
           ELSE LET open   == <<[t |-> "cluster", addr |-> Hex8(sub.address)],
                                [t |-> "clusterlabel", label |-> clusterLabel(p, sub)]>>
                    blocks == writeDotBlocks(p, printControlTypes, sub.blocks, ub)
                IN  IF blocks.crashed
                    THEN [lines |-> open \o blocks.lines, crashed |-> TRUE]
                    ELSE LET rest == writeDotClustersFrom(p, printControlTypes, s + 1, ub)
                         IN  [lines |-> open \o blocks.lines
                                         \o <<[t |-> "text", v |-> "  }\n\n"]>>
                                         \o rest.lines,
                              crashed |-> rest.crashed]

writeDotClusteredBlocks(p, printControlTypes, ub) ==
  writeDotClustersFrom(p, printControlTypes, 1, ub)

edgeColor(type) ==
  CASE type = "ConditionalTrue"  -> "color=green"
    [] type = "ConditionalFalse" -> "color=red"
    [] type = "SubRoutineCall"   -> "color=cyan"
    [] type = "SubRoutineTail"   -> "color=orange"
    [] type = "SubRoutineStore"  -> "color=purple"
    [] type = "Dead"             -> "color=gray40"
    [] OTHER                     -> "color=blue"

\* a faulty variant of edgeAttr, with style=bold on the edges that do not go back: the properties must tell it apart
edgeAttrBoldNotForward(block, child, type) ==
  <<edgeColor(type)>>
    \o (IF child.address <= block.address THEN <<" style=bold">> ELSE <<>>)
    \o (IF block.subRoutine # child.subRoutine THEN <<" constraint=false">> ELSE <<>>)

edgeAttr(block, child, type) ==
  <<edgeColor(type)>>
    \o (IF child.address < block.address THEN <<" style=bold">> ELSE <<>>)
    \o (IF block.subRoutine # child.subRoutine THEN <<" constraint=false">> ELSE <<>>)

\* size_t lastIndex = calculateNodesPerBlock(size) - 1: for size 0 the unsigned
\* subtraction wraps to 2^64 - 1, kept here as the residue -1
blockEdge(p, b, i) ==
  LET block     == BlockAt(p, b)
      child     == BlockAt(p, block.children[i])
      lastIndex == calculateNodesPerBlock(Len(block.instructions)) - 1
  IN  [t |-> "edge", from |-> blockNodeName(block.address, lastIndex),
       to |-> blockNodeName(child.address, 0),
       attr |-> edgeAttr(block, child, block.childrenTypes[i])]

writeDotBlockEdges(p) ==
  Flatten([b \in 1..Len(p.blocks) |->
             [i \in 1..Len(BlockAt(p, b).children) |-> blockEdge(p, b, i)]])

createDot(p, printControlTypes, ub) ==
  LET preamble == <<[t |-> "text", v |-> "digraph {\n"],
                    [t |-> "text", v |-> "  overlap=false\n"],
                    [t |-> "text", v |-> "  concentrate=true\n"],
                    [t |-> "text", v |-> "  splines=ortho\n\n"]>>
      clusters == writeDotClusteredBlocks(p, printControlTypes, ub)
  IN  IF clusters.crashed
      THEN [lines |-> preamble \o clusters.lines, crashed |-> TRUE]
      ELSE [lines |-> preamble \o clusters.lines \o writeDotBlockEdges(p)
                        \o <<[t |-> "text", v |-> "}\n"]>>,
            crashed |-> FALSE]


(***************************************************************************)
(* createListing and createAssembly                                        *)
(***************************************************************************)
\* "; %s bytes, %s instructions\n\n"
writeInfo(p) ==
  <<[t |-> "info", bytes |-> composeString(p.size),
     instrs |-> composeString(Len(p.instructions))]>>

\* p.engineTypes[i] is getEngineTypeName(game, i - 1), empty for an unnamed type
writeEngineTypes(p) ==
  IF Len(p.engineTypes) > 0
  THEN <<[t |-> "text", v |-> "; Engine types:\n"]>>
       \o Flatten([i \in 1..Len(p.engineTypes) |->
                     IF p.engineTypes[i] = <<>> THEN <<>>
                     ELSE <<[t |-> "enginetype", generic |-> composeString(i - 1),
                             name |-> p.engineTypes[i]]>>])
       \o <<[t |-> "text", v |-> "\n"]>>
  ELSE <<>>

writeJumpLabel(p, instr) ==
  IF formatJumpLabelName(instr) # <<>>
  THEN <<[t |-> "label", name |-> formatJumpLabelName(instr),
          sig |-> getSignatureInstr(p, instr)]>>
  ELSE <<>>

writeStack(instr, indent) ==
  <<[t |-> "stackhead", indent |-> indent, size |-> composeString(Len(instr.stack))]>>
  \o [n \in 1..Len(instr.stack) |->
        [t |-> "stackvar", indent |-> indent, idx |-> composeString(n - 1),
         id |-> composeString(instr.stack[n].id), type |-> instr.stack[n].type]]
  \o <<[t |-> "stackfoot", indent |-> indent]>>

listingSeparator == [t |-> "text", v |-> "  -------- -------------------------- ---\n"]

assemblySeparator == [t |-> "text", v |-> "\n"]

\* the body of the loop of createListing, for one instruction
listingInstruction(p, instr, printStack) ==
  writeJumpLabel(p, instr)
  \o (IF p.hasStackAnalysis /\ printStack THEN writeStack(instr, 36) ELSE <<>>)
  \o <<[t |-> "line", addr |-> Hex8(instr.address), bytes |-> formatBytes(instr),
        ins |-> formatInstruction(instr)]>>
  \o (IF ~instr.follower THEN <<listingSeparator>> ELSE <<>>)

\* a faulty variant of assemblyInstruction, with the separator after the instructions that have a follower: the properties must tell it apart
assemblyInstructionSeparatesFollowed(p, instr, printStack) ==
  writeJumpLabel(p, instr)
  \o (IF p.hasStackAnalysis /\ printStack THEN writeStack(instr, 0) ELSE <<>>)
  \o <<[t |-> "line", ins |-> formatInstruction(instr)]>>
  \o (IF instr.follower THEN <<assemblySeparator>> ELSE <<>>)

\* the body of the loop of createAssembly, for one instruction
assemblyInstruction(p, instr, printStack) ==
  writeJumpLabel(p, instr)
  \o (IF p.hasStackAnalysis /\ printStack THEN writeStack(instr, 0) ELSE <<>>)
  \o <<[t |-> "line", ins |-> formatInstruction(instr)]>>
  \o (IF ~instr.follower THEN <<assemblySeparator>> ELSE <<>>)

createListing(p, printStack) ==
  writeInfo(p) \o writeEngineTypes(p)
  \o Flatten([i \in 1..Len(p.instructions) |->
                listingInstruction(p, InstrAt(p, i), printStack)])

\* a faulty variant of createAssembly, without the call of writeInfo: the properties must tell it apart
createAssemblyNoInfo(p, printStack) ==
  writeEngineTypes(p)
  \o Flatten([i \in 1..Len(p.instructions) |->
                assemblyInstruction(p, InstrAt(p, i), printStack)])

createAssembly(p, printStack) ==
  writeInfo(p) \o writeEngineTypes(p)
  \o Flatten([i \in 1..Len(p.instructions) |->
                assemblyInstruction(p, InstrAt(p, i), printStack)])

(***************************************************************************)
(* createNSS.  The recursion of writeNSSBlock and writeNSSIfBlock is kept  *)
(* as a call stack of frames; the operators below give the text each       *)
(* stretch of code writes.                                                 *)
(***************************************************************************)
T(str) == [t |-> "text", v |-> str]

writeNSSIndent(indent) == [i \in 1..indent |-> T("\t")]

\* the names of vs joined by ", "
RECURSIVE variableList(_)
variableList(vs) ==
  IF vs = <<>> THEN <<>>
  ELSE IF Len(vs) = 1 THEN <<formatVariableName(vs[1])>>
  ELSE <<formatVariableName(vs[1]), T(", ")>> \o variableList(Tail(vs))

BinaryOperators ==
  [LOGAND |-> " && ", LOGOR |-> " || ", EQ |-> " == ", LEQ |-> " <= ", LT |-> " < ",
   GEQ |-> " >= ", GT |-> " > "]

\* the variables[] indices (from 1) an opcode of writeNSSInstruction reads
variablesRead(instr) ==
  CASE instr.opcode = "CONST" -> 1
    [] instr.opcode = "ACTION" -> instr.args[2]
    [] instr.opcode \in {"CPDOWNBP", "CPDOWNSP", "CPTOPBP", "CPTOPSP"} -> 2
    [] instr.opcode \in DOMAIN BinaryOperators -> 3
    [] instr.opcode = "NOT" -> 3
    [] instr.opcode = "RSADD" -> 1
    [] OTHER -> 0

writeNSSInstruction(instr, indent) ==
  LET v == instr.variables
  IN  CASE instr.opcode = "CONST" ->
             writeNSSIndent(indent)
             \o <<getVariableTypeName(v[1].type), T(" "), formatVariableName(v[1]),
                  T(" = "), formatInstructionData(instr), T(";\n")>>
        [] instr.opcode = "ACTION" ->
             writeNSSIndent(indent)
             \o (IF Len(v) > instr.args[2]
                 THEN <<getVariableTypeName(v[Len(v)].type), T(" "),
                        formatVariableName(v[Len(v)]), T(" = ")>>
                 ELSE <<>>)
             \o <<getFunctionName(instr.args[1]), T("(")>>
             \o variableList(SubSeq(v, 1, instr.args[2]))
             \o <<T(");\n")>>
        [] instr.opcode \in {"CPDOWNBP", "CPDOWNSP", "CPTOPBP", "CPTOPSP"} ->
             writeNSSIndent(indent)
             \o <<getVariableTypeName(v[2].type), T(" "), formatVariableName(v[2]),
                  T(" = "), formatVariableName(v[1]), T(";\n")>>
        [] instr.opcode \in DOMAIN BinaryOperators ->
             writeNSSIndent(indent)
             \o <<getVariableTypeName(v[3].type), T(" "), formatVariableName(v[3]),
                  T(" = "), formatVariableName(v[1]), T(BinaryOperators[instr.opcode]),
                  formatVariableName(v[2]), T(";\n")>>
        [] instr.opcode = "NOT" ->
             writeNSSIndent(indent)
             \o <<getVariableTypeName(v[3].type), T(" "), formatVariableName(v[3]),
                  T(" = "), T("!"), formatVariableName(v[1]), T(";\n")>>
        [] instr.opcode = "RSADD" ->
             writeNSSIndent(indent)
             \o <<getVariableTypeName(v[1].type), T(" "), formatVariableName(v[1]),
                  T(" = "),
                  CASE v[1].type = "String" -> T("\"\"")
                    [] v[1].type = "Int"    -> T("0")
                    [] v[1].type = "Float"  -> T("0.0")
                    [] OTHER                -> T("0"),
                  T(";\n")>>
        [] OTHER -> <<>>

\* the first loop of writeNSSBlock
blockInstructions(p, block, indent) ==
  Flatten([i \in 1..Len(block.instructions) |->
             writeNSSInstruction(InstrAt(p, block.instructions[i]), indent)])

\* what writeNSSBlock writes for a successor that is a subroutine call, before it
\* recurses into children[1]
callLine(p, block, indent) ==
  LET instruction == InstrAt(p, block.instructions[Len(block.instructions)])
  IN  writeNSSIndent(indent)
      \o formatJumpLabelName(InstrAt(p, instruction.branches[1])) \o <<T("(")>>
      \o variableList(instruction.variables)
      \o <<T(");\n")>>

\* a faulty variant of callFallthrough, recursing into children[0]: the properties must tell it apart
callFallthroughFirstChild(block) == block.children[1]

\* the successor writeNSSBlock recurses into after a call line
callFallthrough(block) == block.children[2]

\* the Return branch of the controls loop of writeNSSBlock
returnLine(p, control, indent) ==
  LET retn == BlockAt(p, control.retn)
  IN  writeNSSIndent(indent)
      \o (IF Len(retn.instructions) > 0
          THEN IF Len(InstrAt(p, retn.instructions[Len(retn.instructions)]).stack) = 0
               THEN <<T("return;\n")>>
               ELSE <<T("return "),
                      formatVariableName(InstrAt(p, retn.instructions[1]).variables[1]),
                      T(";\n")>>
          ELSE <<T("return;\n")>>)

\* writeNSSIfBlock up to the recursion into ifTrue
ifHead(p, control, indent) ==
  LET ifCond == BlockAt(p, control.ifCond)
      cond   == InstrAt(p, ifCond.instructions[Len(ifCond.instructions)]).variables[1]
  IN  writeNSSIndent(indent) \o <<T("if ("), formatVariableName(cond), T(") {\n")>>

\* a faulty variant of ifAfterTrue, closing the brace at the indent of the body: the properties must tell it apart
ifAfterTrueKeepsIndent(control, indent) ==
  writeNSSIndent(indent + 1) \o <<T("}")>>
  \o (IF control.ifElse # 0 THEN <<T(" else {\n")>> ELSE <<T("\n")>>)

\* writeNSSIfBlock between ifTrue and ifElse (or the newline)
ifAfterTrue(control, indent) ==
  writeNSSIndent(indent) \o <<T("}")>>
  \o (IF control.ifElse # 0 THEN <<T(" else {\n")>> ELSE <<T("\n")>>)

\* a faulty variant of ifAfterElse, leaving the else brace open: the properties must tell it apart
ifAfterElseUnclosed(indent) == <<T("\n")>>

\* writeNSSIfBlock after ifElse
ifAfterElse(indent) == writeNSSIndent(indent) \o <<T("}"), T("\n")>>

\* writeNSSSubRoutine up to the recursion into blocks[0], and after it
subRoutineHead(sub) == <<T("\n\n")>> \o formatSignatureNSS(sub) \o <<T(" {\n")>>

subRoutineTail == <<T("}")>>

\* createNSS up to the loop over the subroutines
nssProlog(p) ==
  <<T("// Decompiled using ncsdis"), T("\n\n")>>
  \o Flatten([g \in 1..Len(p.globals) |->
               <<getVariableTypeName(p.globals[g].type), T(" "),
                 formatVariableName(p.globals[g]), [t |-> "id", v |-> composeString(p.globals[g].id)],
                 T("\n")>>])

(***************************************************************************)
(* Programs.  The analysis passes that build an NCSFile are not part of    *)
(* this file; the programs below are the bounded inputs of the model.      *)
(* Blocks are kept in address order, block b at address 32 * b, its        *)
(* instructions one byte apart.                                            *)
(***************************************************************************)
NumSubs == 2

MaxChildren == 2

BlockIds == 1..2

NumBlocks == Cardinality(BlockIds)

SubIds == 1..NumSubs

KValues == {0, 1, 10, 11, 20, 21}

KFew == {0, 1, 11}

BlockAddr(b) == 32 * b

RECURSIVE InstrBase(_, _)
InstrBase(k, b) == IF b = 1 THEN 0 ELSE InstrBase(k, b - 1) + k[b - 1]

\* the blocks assigned to subroutine s, in address order
RECURSIVE BlocksOf(_, _, _)
BlocksOf(assign, s, b) ==
  IF b > NumBlocks THEN <<>>
  ELSE (IF assign[b] = s THEN <<b>> ELSE <<>>) \o BlocksOf(assign, s, b + 1)

NoVariables == <<>>

MkInstruction(address, block, follower, addressType) ==
  [address |-> address, block |-> block, follower |-> follower,
   addressType |-> addressType, label |-> <<>>, opcode |-> "NOP",
   variables |-> NoVariables, branches |-> <<>>, stack |-> <<>>, args |-> <<>>]

MkBlock(b, k, base, children, childrenTypes, sub) ==
  [address |-> BlockAddr(b), instructions |-> [j \in 1..k |-> base + j],
   children |-> children, childrenTypes |-> childrenTypes, subRoutine |-> sub,
   controls |-> <<>>, label |-> <<>>]

MkSubRoutine(s, blocks) ==
  [address |-> IF blocks = <<>> THEN 8 * s ELSE BlockAddr(blocks[1]),
   blocks |-> blocks, type |-> "None", stackAnalyzeState |-> "None", label |-> <<>>]

\* k[b] instructions in block b, block b in subroutine assign[b] (0: in none)
MkProgram(k, assign, children, childrenTypes) ==
  LET instrs == Flatten([b \in BlockIds |->
                  [j \in 1..k[b] |->
                     MkInstruction(BlockAddr(b) + j - 1, b, j < k[b],
                       IF j = 1 /\ assign[b] # 0 /\ BlocksOf(assign, assign[b], 1)[1] = b
                       THEN "SubRoutine" ELSE "None")]])
  IN  [size             |-> 13 + Len(instrs),
       hasStackAnalysis |-> FALSE,
       globals          |-> <<>>,
       engineTypes      |-> <<>>,
       instructions     |-> instrs,
       blocks           |-> [b \in BlockIds |->
                               MkBlock(b, k[b], InstrBase(k, b), children[b],
                                       childrenTypes[b], assign[b])],
       subRoutines      |-> [s \in SubIds |-> MkSubRoutine(s, BlocksOf(assign, s, 1))]]

Assignments == [BlockIds -> 0..NumSubs]

NextBlock(b) == (b % NumBlocks) + 1

\* every block has no successor or one unconditional successor, the next block
LightChildren == [BlockIds -> {0, 1}]

\* the enumerators of BlockEdgeType in declaration order, then a value outside them
EdgeTypeSeq == <<"Unconditional", "ConditionalTrue", "ConditionalFalse", "SubRoutineCall",
                 "SubRoutineTail", "SubRoutineStore", "Dead", "Unlisted">>

\* successor lists: up to MaxChildren child blocks; the kinds of a list run through
\* EdgeTypeSeq from any first kind t0
ChildLists == SeqsUpTo(BlockIds, MaxChildren)

KindsFrom(t0, n) == [i \in 1..n |-> EdgeTypeSeq[((t0 + i - 2) % Len(EdgeTypeSeq)) + 1]]

(***************************************************************************)
(* State: out[m] is the sink of mode m, pc[m] where the call of m stands   *)
(* ("idle", "running", "done", or "crashed"), arg[m] the flag it was       *)
(* called with.  The Disassembler is single-threaded: a call starts when   *)
(* no other call is running.                                               *)
(***************************************************************************)
NoneRunning == \A m \in Modes : pc[m] # "running"

InitState(p) ==
  /\ prog = p
  /\ pc = [m \in Modes |-> "idle"]
  /\ out = [m \in Modes |-> <<>>]
  /\ arg = [m \in Modes |-> FALSE]
  /\ stack = <<>>

CreateDot(printControlTypes, ub) ==
  /\ NoneRunning
  /\ pc["dot"] = "idle"
  /\ LET r == createDot(prog, printControlTypes, ub)
     IN  /\ out' = [out EXCEPT !["dot"] = r.lines]
         /\ pc' = [pc EXCEPT !["dot"] = IF r.crashed THEN "crashed" ELSE "done"]
  /\ arg' = [arg EXCEPT !["dot"] = printControlTypes]
  /\ UNCHANGED <<prog, stack>>

CreateListing(printStack) ==
  /\ NoneRunning
  /\ pc["listing"] = "idle"
  /\ out' = [out EXCEPT !["listing"] = createListing(prog, printStack)]
  /\ pc' = [pc EXCEPT !["listing"] = "done"]
  /\ arg' = [arg EXCEPT !["listing"] = printStack]
  /\ UNCHANGED <<prog, stack>>

CreateAssembly(printStack) ==
  /\ NoneRunning
  /\ pc["assembly"] = "idle"
  /\ out' = [out EXCEPT !["assembly"] = createAssembly(prog, printStack)]
  /\ pc' = [pc EXCEPT !["assembly"] = "done"]
  /\ arg' = [arg EXCEPT !["assembly"] = printStack]
  /\ UNCHANGED <<prog, stack>>

NextList == \E printStack \in BOOLEAN :
              CreateListing(printStack) \/ CreateAssembly(printStack)

(***************************************************************************)
(* createNSS, step by step.  A frame is one activation: of createNSS (at   *)
(* subroutine s of its loop), of writeNSSSubRoutine, of writeNSSBlock (in  *)
(* its instruction loop, at successor i of its second loop, or at control  *)
(* i of its third), or of writeNSSIfBlock (after ifTrue, after ifElse, or  *)
(* after ifNext).  A step runs the top activation up to its next call or   *)
(* return.  start is the length of the sink when the activation began: a   *)
(* history value that only the properties read.                            *)
(* Reading past the end of a vector (blocks[0], instructions.back(),       *)
(* children[1], branches[0], variables[n]) is undefined behaviour: the     *)
(* call ends as "undefined", and nothing is said about its output.  A call *)
(* stack deeper than MaxDepth ends the call as "overflow".                 *)
(***************************************************************************)
MaxDepth == 10

Top == stack[Len(stack)]

Popped == SubSeq(stack, 1, Len(stack) - 1)

WithTop(frame) == [stack EXCEPT ![Len(stack)] = frame]

nssRunning == pc["nss"] = "running" /\ stack # <<>>

BlockFrame(b, indent, start) ==
  [f |-> "block", b |-> b, indent |-> indent, phase |-> "instrs", i |-> 1,
   start |-> start]

\* the second loop of writeNSSBlock is over once i passes childrenTypes
AtEdge(frame, i) ==
  IF i > Len(BlockAt(prog, frame.b).childrenTypes)
  THEN [frame EXCEPT !.phase = "controls", !.i = 1]
  ELSE [frame EXCEPT !.phase = "calls", !.i = i]

Go(written, newStack) ==
  /\ out' = [out EXCEPT !["nss"] = @ \o written]
  /\ IF Len(newStack) > MaxDepth
     THEN stack' = <<>> /\ pc' = [pc EXCEPT !["nss"] = "overflow"]
     ELSE stack' = newStack /\ pc' = pc
  /\ UNCHANGED <<prog, arg>>

Undefined ==
  /\ pc' = [pc EXCEPT !["nss"] = "undefined"]
  /\ stack' = <<>>
  /\ UNCHANGED <<prog, out, arg>>

\* where the next activation's output starts
After(written) == Len(out["nss"]) + Len(written)

NSSBegin ==
  /\ NoneRunning
  /\ pc["nss"] = "idle"
  /\ out' = [out EXCEPT !["nss"] = nssProlog(prog)]
  /\ pc' = [pc EXCEPT !["nss"] = "running"]
  /\ stack' = <<[f |-> "createNSS", s |-> 1]>>
  /\ UNCHANGED <<prog, arg>>

NSSEnterSubRoutine ==
  /\ nssRunning
  /\ Top.f = "createNSS"
  /\ Top.s <= Len(prog.subRoutines)
  /\ LET sub == SubAt(prog, Top.s)
     IN  IF sub.blocks = <<>>
         THEN Undefined
         ELSE Go(subRoutineHead(sub),
                 WithTop([Top EXCEPT !.s = @ + 1])
                 \o <<[f |-> "sub", s |-> Top.s],
                      BlockFrame(sub.blocks[1], 1, After(subRoutineHead(sub)))>>)

NSSLeaveSubRoutine ==
  /\ nssRunning
  /\ Top.f = "sub"
  /\ Go(subRoutineTail, Popped)

NSSFinish ==
  /\ nssRunning
  /\ Top.f = "createNSS"
  /\ Top.s > Len(prog.subRoutines)
  /\ pc' = [pc EXCEPT !["nss"] = "done"]
  /\ stack' = <<>>
  /\ UNCHANGED <<prog, out, arg>>

NSSBlockInstructions ==
  /\ nssRunning
  /\ Top.f = "block" /\ Top.phase = "instrs"
  /\ LET block == BlockAt(prog, Top.b)
     IN  IF \E i \in 1..Len(block.instructions) :
               Len(InstrAt(prog, block.instructions[i]).variables)
                 < variablesRead(InstrAt(prog, block.instructions[i]))
         THEN Undefined
         ELSE Go(blockInstructions(prog, block, Top.indent), WithTop(AtEdge(Top, 1)))

NSSBlockCall ==
  /\ nssRunning
  /\ Top.f = "block" /\ Top.phase = "calls"
  /\ LET block == BlockAt(prog, Top.b)
     IN  /\ isSubRoutineCall(block.childrenTypes[Top.i])
         /\ IF \/ block.instructions = <<>>
               \/ InstrAt(prog, block.instructions[Len(block.instructions)]).branches = <<>>
               \/ Len(block.children) < 2
            THEN Undefined
            ELSE Go(callLine(prog, block, Top.indent),
                    Append(WithTop(AtEdge(Top, Top.i + 1)),
                           BlockFrame(callFallthrough(block), Top.indent,
                                      After(callLine(prog, block, Top.indent)))))

NSSBlockNoCall ==
  /\ nssRunning
  /\ Top.f = "block" /\ Top.phase = "calls"
  /\ ~isSubRoutineCall(BlockAt(prog, Top.b).childrenTypes[Top.i])
  /\ Go(<<>>, WithTop(AtEdge(Top, Top.i + 1)))

AtControl == Top.f = "block" /\ Top.phase = "controls"
               /\ Top.i <= Len(BlockAt(prog, Top.b).controls)

TopControl == BlockAt(prog, Top.b).controls[Top.i]

NSSControlReturn ==
  /\ nssRunning
  /\ AtControl
  /\ TopControl.type = "Return"
  /\ LET retn == BlockAt(prog, TopControl.retn)
     IN  IF /\ Len(retn.instructions) > 0
            /\ Len(InstrAt(prog, retn.instructions[Len(retn.instructions)]).stack) # 0
            /\ InstrAt(prog, retn.instructions[1]).variables = <<>>
         THEN Undefined
         ELSE Go(returnLine(prog, TopControl, Top.indent),
                 WithTop([Top EXCEPT !.i = @ + 1]))

NSSControlIf ==
  /\ nssRunning
  /\ AtControl
  /\ TopControl.type = "IfCond"
  /\ LET control == TopControl
         ifCond  == BlockAt(prog, control.ifCond)
         head    == ifHead(prog, control, Top.indent)
     IN  IF \/ ifCond.instructions = <<>>
            \/ InstrAt(prog, ifCond.instructions[Len(ifCond.instructions)]).variables = <<>>
         THEN Undefined
         ELSE Go(head,
                 WithTop([Top EXCEPT !.i = @ + 1])
                 \o <<[f |-> "if", control |-> control, indent |-> Top.indent,
                       phase |-> "true", start |-> Len(out["nss"])]>>
                 \o (IF control.ifTrue # 0
                     THEN <<BlockFrame(control.ifTrue, Top.indent + 1, After(head))>>
                     ELSE <<>>))

NSSControlOther ==
  /\ nssRunning
  /\ AtControl
  /\ TopControl.type \notin {"Return", "IfCond"}
  /\ Go(<<>>, WithTop([Top EXCEPT !.i = @ + 1]))

NSSBlockReturn ==
  /\ nssRunning
  /\ Top.f = "block" /\ Top.phase = "controls"
  /\ Top.i > Len(BlockAt(prog, Top.b).controls)
  /\ Go(<<>>, Popped)

\* the frames writeNSSIfBlock leaves on the stack once its braces are closed
IfTail(frame, written) ==
  WithTop([frame EXCEPT !.phase = "next"])
  \o (IF frame.control.ifNext # 0
      THEN <<BlockFrame(frame.control.ifNext, frame.indent, After(written))>>
      ELSE <<>>)

NSSIfAfterTrue ==
  /\ nssRunning
  /\ Top.f = "if" /\ Top.phase = "true"
  /\ LET written == ifAfterTrue(Top.control, Top.indent)
     IN  IF Top.control.ifElse # 0
         THEN Go(written,
                 Append(WithTop([Top EXCEPT !.phase = "else"]),
                        BlockFrame(Top.control.ifElse, Top.indent + 1, After(written))))
         ELSE Go(written, IfTail(Top, written))

NSSIfAfterElse ==
  /\ nssRunning
  /\ Top.f = "if" /\ Top.phase = "else"
  /\ Go(ifAfterElse(Top.indent), IfTail(Top, ifAfterElse(Top.indent)))

NSSIfReturn ==
  /\ nssRunning
  /\ Top.f = "if" /\ Top.phase = "next"
  /\ Go(<<>>, Popped)

NextNSS ==
  \/ NSSBegin
  \/ NSSEnterSubRoutine
  \/ NSSLeaveSubRoutine
  \/ NSSFinish
  \/ NSSBlockInstructions
  \/ NSSBlockCall
  \/ NSSBlockNoCall
  \/ NSSControlReturn
  \/ NSSControlIf
  \/ NSSControlOther
  \/ NSSBlockReturn
  \/ NSSIfAfterTrue
  \/ NSSIfAfterElse
  \/ NSSIfReturn

NextDot == \E printControlTypes \in BOOLEAN, ub \in {"crash", "survive"} :
             CreateDot(printControlTypes, ub)

\* block sizes around the node size, light control flow
InitDot ==
  \E k \in [BlockIds -> KValues], assign \in Assignments, e \in LightChildren :
    InitState(MkProgram(k, assign,
      [b \in BlockIds |-> IF e[b] = 1 THEN <<NextBlock(b)>> ELSE <<>>],
      [b \in BlockIds |-> IF e[b] = 1 THEN <<"Unconditional">> ELSE <<>>]))

SpecDot == InitDot /\ [][NextDot]_vars

\* one block src has up to MaxChildren successors
InitDotEdges ==
  \E k \in [BlockIds -> KFew], assign \in Assignments, src \in BlockIds,
     ch \in ChildLists, t0 \in 1..Len(EdgeTypeSeq) :
    InitState(MkProgram(k, assign,
      [b \in BlockIds |-> IF b = src THEN ch ELSE <<>>],
      [b \in BlockIds |-> IF b = src THEN KindsFrom(t0, Len(ch)) ELSE <<>>]))

SpecDotEdges == InitDotEdges /\ [][NextDot]_vars


(***************************************************************************)
(* Straight-line programs for the listing and assembly modes: up to        *)
(* MaxInstr instructions in one block of one subroutine.                   *)
(***************************************************************************)
MaxInstr == 3

\* an instruction is drawn as <<follower, kind>>: kind 0 has no jump label, kind 1 is
\* a labelled jump target, kind 2 a labelled subroutine entry
InstrShapes == BOOLEAN \X {0, 1, 2}

\* the owning subroutine: its type and analysis state, or "orphan" when the block has
\* no subroutine
SubShapes == {<<"None", "Finished">>, <<"Start", "Finished">>, <<"None", "Failed">>,
              <<"orphan", "None">>}

EngineTypeLists == {<<>>, << <<[t |-> "name", v |-> "Effect"]>>, <<>> >>}

MkListProgram(shapes, hasStackAnalysis, subShape, engineTypes) ==
  LET n == Len(shapes)
      instrs == [i \in 1..n |->
                   [address     |-> 13 + i - 1,
                    block       |-> 1,
                    follower    |-> shapes[i][1],
                    addressType |-> CASE shapes[i][2] = 0 -> "None"
                                      [] shapes[i][2] = 1 -> "JumpLabel"
                                      [] shapes[i][2] = 2 -> "SubRoutine",
                    label       |-> IF shapes[i][2] = 0 THEN <<>>
                                    ELSE <<[t |-> "name", v |-> Hex8(13 + i - 1)]>>,
                    opcode      |-> "NOP",
                    variables   |-> NoVariables,
                    branches    |-> <<>>,
                    args        |-> <<>>,
                    stack       |-> IF hasStackAnalysis
                                    THEN [v \in 1..(i - 1) |-> [id |-> v, type |-> "Int"]]
                                    ELSE <<>>]]
      orphan == subShape[1] = "orphan"
  IN  [size             |-> 13 + n,
       hasStackAnalysis |-> hasStackAnalysis,
       globals          |-> <<>>,
       engineTypes      |-> engineTypes,
       instructions     |-> instrs,
       blocks           |-> <<[address |-> 13, instructions |-> [i \in 1..n |-> i],
                               children |-> <<>>, childrenTypes |-> <<>>,
                               subRoutine |-> IF orphan THEN 0 ELSE 1,
                               controls |-> <<>>, label |-> <<>>]>>,
       subRoutines      |-> IF orphan THEN <<>>
                            ELSE <<[address |-> 13, blocks |-> <<1>>,
                                    type |-> subShape[1],
                                    stackAnalyzeState |-> subShape[2],
                                    label |-> <<>>]>>]

InitList ==
  \E shapes \in SeqsUpTo(InstrShapes, MaxInstr), hasStackAnalysis \in BOOLEAN,
     subShape \in SubShapes, engineTypes \in EngineTypeLists :
    InitState(MkListProgram(shapes, hasStackAnalysis, subShape, engineTypes))

SpecList == InitList /\ [][NextList]_vars

(***************************************************************************)
(* Structured programs for the NSS mode: blocks 1..3 of three instructions *)
(* each (a CONST, an RSADD and a jump, the jump's variable being the       *)
(* condition of the block), block 1 the entry of the first subroutine.     *)
(* A block's successors and controls point forward, except that the last   *)
(* block's if may continue at the entry (a loop).                          *)
(***************************************************************************)
NssBlockIds == 1..3

LastNssBlock == 3

Var(n, type) == [id |-> n, type |-> type]

ReturnControl(b) == [type |-> "Return", retn |-> b]

IfControl(b, t, e, n) ==
  [type |-> "IfCond", ifCond |-> b, ifTrue |-> t, ifElse |-> e, ifNext |-> n]

Forward(b) == {0} \cup {c \in NssBlockIds : c > b}

\* the control lists a block may carry
ControlLists(b) ==
  {<<>>, <<ReturnControl(b)>>, <<[type |-> "WhileHead"]>>,
   <<IfControl(b, 0, 0, 0), ReturnControl(b)>>}
  \cup {<<IfControl(b, t, e, n)>> :
          t \in Forward(b), e \in Forward(b) \ {b + 1},
          n \in IF b = LastNssBlock THEN {0, 1} ELSE Forward(b) \ {b + 1}}

\* no successor, or a call: children[0] the callee, children[1] the fallthrough
CallOptions(b) == IF b = LastNssBlock THEN {FALSE} ELSE BOOLEAN

\* how the subroutine list continues after the first subroutine
SubLists == {"one", "two", "emptyBlocks"}

NssInstructions(b, call) ==
  LET base == BlockAddr(b)
      bare == [block |-> b, follower |-> TRUE, addressType |-> "None", label |-> <<>>,
               branches |-> <<>>, args |-> <<>>, stack |-> <<>>]
  IN  <<[bare EXCEPT !.label = <<[t |-> "name", v |-> Hex8(base)]>>,
                     !.addressType = IF b = 1 THEN "SubRoutine" ELSE "JumpLabel"]
          @@ [address |-> base, opcode |-> "CONST", variables |-> <<Var(10 * b + 1, "Int")>>],
        bare @@ [address |-> base + 1, opcode |-> "RSADD",
                 variables |-> <<Var(10 * b + 2, "String")>>],
        [bare EXCEPT !.branches = IF call THEN <<3 * (LastNssBlock - 1) + 1>> ELSE <<>>,
                     !.stack = IF b % 2 = 1 THEN <<Var(10 * b + 1, "Int")>> ELSE <<>>,
                     !.follower = FALSE]
          @@ [address |-> base + 2, opcode |-> IF call THEN "JSR" ELSE "JZ",
              variables |-> <<Var(10 * b + 3, "Int"), Var(10 * b + 4, "Int")>>]>>

MkNssProgram(controls, call, subList) ==
  [size             |-> 13 + 3 * LastNssBlock,
   hasStackAnalysis |-> TRUE,
   globals          |-> <<Var(1, "Int")>>,
   engineTypes      |-> <<>>,
   instructions     |-> Flatten([b \in NssBlockIds |-> NssInstructions(b, call[b])]),
   blocks           |-> [b \in NssBlockIds |->
                           [address |-> BlockAddr(b),
                            instructions |-> <<3 * b - 2, 3 * b - 1, 3 * b>>,
                            children |-> IF call[b] THEN <<LastNssBlock, b + 1>> ELSE <<>>,
                            childrenTypes |-> IF call[b]
                                              THEN <<"SubRoutineCall", "SubRoutineTail">>
                                              ELSE <<>>,
                            subRoutine |-> 1,
                            controls |-> controls[b],
                            label |-> <<>>]],
   subRoutines      |->
     <<[address |-> BlockAddr(1), blocks |-> [b \in NssBlockIds |-> b], type |-> "None",
        stackAnalyzeState |-> "Finished", label |-> <<>>]>>
     \o (CASE subList = "one" -> <<>>
           [] subList = "two" ->
                <<[address |-> BlockAddr(LastNssBlock), blocks |-> <<LastNssBlock>>,
                   type |-> "None", stackAnalyzeState |-> "Finished", label |-> <<>>]>>
           [] subList = "emptyBlocks" ->
                <<[address |-> 8, blocks |-> <<>>, type |-> "None",
                   stackAnalyzeState |-> "None", label |-> <<>>]>>)]

InitNSS ==
  \E c1 \in ControlLists(1), c2 \in ControlLists(2), c3 \in ControlLists(3),
     call \in [NssBlockIds -> BOOLEAN], subList \in SubLists :
    /\ \A b \in NssBlockIds : call[b] \in CallOptions(b)
    /\ InitState(MkNssProgram(<<c1, c2, c3>>, call, subList))

SpecNSS == InitNSS /\ [][NextNSS]_vars

\* a call of createNSS keeps running: the processor does not stop in the middle of it
SpecNSSFair == SpecNSS /\ WF_vars(NextNSS)

(***************************************************************************)
(* The four modes on one program.  hasStackAnalysis is set only when the   *)
(* whole stack analysis succeeded, so a program without it may still hold  *)
(* subroutines whose analysis finished and instructions with a stack.      *)
(* A program may end in an instruction that belongs to no block.           *)
(***************************************************************************)
\* the control lists of blocks 1..3, and whether block 1 ends in a call
AllShapes ==
  {[controls |-> <<<<IfControl(1, 2, 3, 0)>>, <<>>, <<>>>>, call |-> FALSE],
   [controls |-> <<<<IfControl(1, 0, 0, 2), ReturnControl(1)>>, <<>>, <<ReturnControl(3)>>>>,
    call |-> FALSE],
   [controls |-> <<<<[type |-> "WhileHead"]>>, <<ReturnControl(2)>>, <<>>>>, call |-> TRUE]}

ProgramSizes == {22, 300}

WithTrailing(p, extra) ==
  [p EXCEPT !.instructions =
     @ \o [i \in 1..extra |->
             [address |-> BlockAddr(LastNssBlock) + 2 + i, block |-> 0, follower |-> FALSE,
              addressType |-> "None", label |-> <<>>, opcode |-> "NOP",
              variables |-> <<>>, branches |-> <<>>, args |-> <<>>, stack |-> <<>>]]]

InitAll ==
  \E shape \in AllShapes, subList \in {"one", "two"},
     hasStackAnalysis \in BOOLEAN, type \in {"None", "Start"},
     state \in {"Finished", "None"}, size \in ProgramSizes, extra \in 0..1 :
    InitState(
      [WithTrailing(MkNssProgram(shape.controls,
                                 [b \in NssBlockIds |-> shape.call /\ b = 1],
                                 subList), extra)
         EXCEPT !.hasStackAnalysis = hasStackAnalysis,
                !.size = size,
                !.subRoutines[1].type = type,
                !.subRoutines[1].stackAnalyzeState = state])

Next ==
  \/ \E printStack \in BOOLEAN : CreateListing(printStack)
  \/ \E printStack \in BOOLEAN : CreateAssembly(printStack)
  \/ \E printControlTypes \in BOOLEAN, ub \in {"crash", "survive"} :
       CreateDot(printControlTypes, ub)
  \/ NextNSS

Spec == InitAll /\ [][Next]_vars

(***************************************************************************)
(* Reading the DOT output                                                  *)
(***************************************************************************)
dotDone == pc["dot"] = "done"

\* the node lines that declare a node of the block at address a, in output order
NodeLinesOf(o, a) == SelectSeq(o, LAMBDA x : x.t = "node" /\ x.name.addr = Hex8(a))

\* the inter-block edge lines that leave the block at address a, in output order
EdgeLinesFrom(o, a) == SelectSeq(o, LAMBDA x : x.t = "edge" /\ x.from.addr = Hex8(a))

\* a subroutine the claims call skipped
SkippedSub(sub) ==
  sub.blocks = <<>> \/ BlockAt(prog, sub.blocks[1]).instructions = <<>>

\* the blocks createDot renders: those listed by a subroutine it does not skip
RenderedBlocks ==
  {b \in 1..Len(prog.blocks) :
     \E s \in 1..Len(prog.subRoutines) :
        ~SkippedSub(SubAt(prog, s)) /\ b \in Range(SubAt(prog, s).blocks)}

\* an integer as a decimal numeral, with its sign
Numeral(n) == IF n < 0 THEN <<"-">> \o composeString(-n) ELSE composeString(n)

NodeName(a, i) == [addr |-> Hex8(a), idx |-> Numeral(i)]

Max(a, b) == IF a >= b THEN a ELSE b

\* ceil(k / 10) by its definition: the least n with 10 * n >= k
CeilTenth(k) == CHOOSE n \in 0..k : 10 * n >= k /\ (n = 0 \/ 10 * (n - 1) < k)

\* C1 (as claimed): every block B with k instructions that createDot renders gets
\* exactly N = max(1, ceil(k/10)) nodes, named b<addr>_0 .. b<addr>_(N-1) in this
\* order; a block without instructions still gets one node.
C1_NodesPerBlock ==
  dotDone =>
    \A b \in RenderedBlocks :
      LET B == BlockAt(prog, b)
          N == Max(1, CeilTenth(Len(B.instructions)))
          lines == NodeLinesOf(out["dot"], B.address)
      IN  /\ Len(lines) = N
          /\ \A i \in 1..N : lines[i].name = NodeName(B.address, i - 1)

\* C1 holds of every rendered block that has instructions, at the sizes the claim
\* names (10, 11, 20, 21) among others
C1_NodesPerNonEmptyBlock ==
  dotDone =>
    \A b \in RenderedBlocks :
      LET B == BlockAt(prog, b)
          N == Max(1, CeilTenth(Len(B.instructions)))
          lines == NodeLinesOf(out["dot"], B.address)
      IN  Len(B.instructions) > 0 =>
            /\ Len(lines) = N
            /\ \A i \in 1..N : lines[i].name = NodeName(B.address, i - 1)

ClaimedColor(type) ==
  CASE type = "ConditionalTrue"  -> "color=green"
    [] type = "ConditionalFalse" -> "color=red"
    [] type = "SubRoutineCall"   -> "color=cyan"
    [] type = "SubRoutineTail"   -> "color=orange"
    [] type = "SubRoutineStore"  -> "color=purple"
    [] type = "Dead"             -> "color=gray40"
    [] type = "Unconditional"    -> "color=blue"
    [] OTHER                     -> "color=blue"

\* C2 (as claimed): every block B has exactly |B.children| inter-block edge lines, one
\* per successor in order, from b<B.addr>_<lastIndex> with lastIndex =
\* ceil(|B.instructions|/10) - 1 to b<child.addr>_0, coloured by childrenTypes[i].
C2_EdgesPerBlock ==
  dotDone =>
    \A b \in 1..Len(prog.blocks) :
      LET B == BlockAt(prog, b)
          lines == EdgeLinesFrom(out["dot"], B.address)
      IN  /\ Len(lines) = Len(B.children)
          /\ \A i \in 1..Len(B.children) :
               /\ lines[i].from = NodeName(B.address, CeilTenth(Len(B.instructions)) - 1)
               /\ lines[i].to = NodeName(BlockAt(prog, B.children[i]).address, 0)
               /\ lines[i].attr[1] = ClaimedColor(B.childrenTypes[i])

\* C2 holds of every block that has instructions
C2_EdgesPerNonEmptyBlock ==
  dotDone =>
    \A b \in 1..Len(prog.blocks) :
      LET B == BlockAt(prog, b)
          lines == EdgeLinesFrom(out["dot"], B.address)
      IN  /\ Len(lines) = Len(B.children)
          /\ \A i \in 1..Len(B.children) :
               /\ Len(B.instructions) > 0 =>
                    lines[i].from = NodeName(B.address, CeilTenth(Len(B.instructions)) - 1)
               /\ lines[i].to = NodeName(BlockAt(prog, B.children[i]).address, 0)
               /\ lines[i].attr[1] = ClaimedColor(B.childrenTypes[i])

Colors == {"color=blue", "color=green", "color=red", "color=cyan", "color=orange",
           "color=purple", "color=gray40"}

\* C3: the attribute list of every inter-block edge B -> child is the colour, then
\* " style=bold" iff child.address < B.address, then " constraint=false" iff
\* B.subRoutine differs from child.subRoutine; a ConditionalFalse edge to a lower
\* address in the same subroutine is exactly [ color=red style=bold ].
C3_EdgeAttributes ==
  dotDone =>
    \A b \in 1..Len(prog.blocks) :
      LET B == BlockAt(prog, b)
          lines == EdgeLinesFrom(out["dot"], B.address)
      IN  \A i \in 1..Len(lines) :
            LET child == BlockAt(prog, B.children[i])
                attr  == lines[i].attr
                back  == child.address < B.address
                cross == B.subRoutine # child.subRoutine
            IN  /\ attr[1] \in Colors
                /\ Len(attr) = 1 + (IF back THEN 1 ELSE 0) + (IF cross THEN 1 ELSE 0)
                /\ back => attr[2] = " style=bold"
                /\ cross => attr[Len(attr)] = " constraint=false"
                /\ (B.childrenTypes[i] = "ConditionalFalse" /\ back /\ ~cross)
                     => attr = <<"color=red", " style=bold">>

\* a ConditionalFalse edge to a lower address within one subroutine was written, and
\* so was an edge that is both backward and cross-subroutine
C3_Witness ==
  /\ dotDone
  /\ \E b \in 1..Len(prog.blocks) :
       LET B == BlockAt(prog, b)
       IN  /\ Len(B.children) = 2
           /\ B.childrenTypes[2] = "ConditionalFalse"
           /\ BlockAt(prog, B.children[2]).address < B.address
           /\ BlockAt(prog, B.children[2]).subRoutine = B.subRoutine
           /\ B.subRoutine # 0
           /\ EdgeLinesFrom(out["dot"], B.address)[2].attr = <<"color=red", " style=bold">>

\* C4 (as claimed): a subroutine whose block list is empty or whose first block has
\* no instructions is completely skipped: no cluster for it, no node for any of its
\* blocks, and no edge line that names one of its blocks as source or target.
C4_SkippedSubroutineLeavesNoTrace ==
  dotDone =>
    \A s \in 1..Len(prog.subRoutines) :
      LET sub == SubAt(prog, s)
          o   == out["dot"]
      IN  SkippedSub(sub) =>
            /\ \A n \in 1..Len(o) : o[n].t = "cluster" => o[n].addr # Hex8(sub.address)
            /\ \A b \in Range(sub.blocks) :
                 LET a == Hex8(BlockAt(prog, b).address)
                 IN  \A n \in 1..Len(o) :
                       /\ o[n].t = "node" => o[n].name.addr # a
                       /\ o[n].t = "edge" => (o[n].from.addr # a /\ o[n].to.addr # a)

\* what does hold of a skipped subroutine: no cluster and no node
C4_SkippedSubroutineHasNoClusterNoNode ==
  dotDone =>
    \A s \in 1..Len(prog.subRoutines) :
      LET sub == SubAt(prog, s)
          o   == out["dot"]
      IN  SkippedSub(sub) =>
            /\ \A n \in 1..Len(o) : o[n].t = "cluster" => o[n].addr # Hex8(sub.address)
            /\ \A b \in Range(sub.blocks) :
                 \A n \in 1..Len(o) :
                   o[n].t = "node" => o[n].name.addr # Hex8(BlockAt(prog, b).address)


\* the subdivision edge lines of the block at address a, in output order
ChainLinesOf(o, a) ==
  SelectSeq(o, LAMBDA x : x.t = "chain" /\ x.names # <<>> /\ x.names[1].addr = Hex8(a))

\* the positions in o of the node lines of the block at address a
NodePositionsOf(o, a) == {n \in 1..Len(o) : o[n].t = "node" /\ o[n].name.addr = Hex8(a)}

\* C11: a block that createDot renders as one node has no subdivision edge line; a
\* block rendered as N > 1 nodes has exactly one, right after its last node line,
\* naming b<addr>_0 .. b<addr>_(N-1) in this order, with [ style=dotted ]; and no
\* other line with '->' stands before the end of the last cluster.
C11_SubdivisionEdge ==
  dotDone =>
    LET o == out["dot"]
    IN  /\ \A b \in 1..Len(prog.blocks) :
             LET a      == BlockAt(prog, b).address
                 N      == Len(NodeLinesOf(o, a))
                 chains == ChainLinesOf(o, a)
             IN  /\ N <= 1 => chains = <<>>
                 /\ N > 1 =>
                      /\ Len(chains) = 1
                      /\ chains[1].names = [i \in 1..N |-> NodeName(a, i - 1)]
                      /\ chains[1].attr = " [ style=dotted ]\n"
                      /\ \A n \in NodePositionsOf(o, a) :
                           (\A m \in NodePositionsOf(o, a) : m <= n)
                             => o[n + 1] = chains[1]
        /\ \A n \in 1..Len(o) : o[n].t = "chain" => Len(o[n].names) > 1
        /\ \A n \in 1..Len(o) : \A m \in 1..Len(o) :
             o[n].t = "edge" /\ o[m].t \in {"cluster", "node", "chain"} => m < n

\* createDot has rendered a block as one node and another as three
C11_Witness ==
  /\ dotDone
  /\ \E b \in 1..Len(prog.blocks) :
       /\ Len(NodeLinesOf(out["dot"], BlockAt(prog, b).address)) = 1
       /\ ChainLinesOf(out["dot"], BlockAt(prog, b).address) = <<>>
  /\ \E b \in 1..Len(prog.blocks) :
       /\ Len(NodeLinesOf(out["dot"], BlockAt(prog, b).address)) = 3
       /\ Len(ChainLinesOf(out["dot"], BlockAt(prog, b).address)) = 1
  /\ \E n \in 1..Len(out["dot"]) : out["dot"][n].t = "edge"

\* the instruction lines in the label of a node line
InstructionsIn(node) == SelectSeq(node.label, LAMBDA x : x.t = "ins")

\* ceil(k / n) by its definition: the least l with l * n >= k
CeilOver(k, n) == CHOOSE l \in 0..k : l * n >= k /\ (l = 0 \/ (l - 1) * n < k)

\* the block sizes for which the layout arithmetic of writeDotBlocks is worked out
MaxBlockSize == 120

\* for every block size k in 1..MaxBlockSize, with the node count N and the lines per
\* node L that writeDotBlocks computes: N = ceil(k/10), L = ceil(k/N), the last
\* instruction falls in a node below N, the last node is not empty, L is at most 10
LayoutInRange ==
  \A k \in 1..MaxBlockSize :
    LET N == calculateNodesPerBlock(k)
        L == linesPerNodeOf(k, N)
    IN  /\ N = CeilTenth(k)
        /\ L = CeilOver(k, N)
        /\ (k - 1) \div L < N
        /\ (N - 1) * L < k
        /\ L >= 1 /\ L <= 10

\* C12: a block with k >= 1 instructions that createDot renders is split into
\* N = ceil(k/10) nodes; with lines_per_node = ceil(k/N), instruction j (from 0) stands
\* in node j div lines_per_node, which is below N; over the nodes in order the
\* instructions keep their order and appear once each; every node holds at least 1
\* and at most 10 instruction lines.  The arithmetic is also worked out for every
\* block size up to MaxBlockSize.
C12_InstructionPlacement ==
  /\ LayoutInRange
  /\ dotDone =>
    \A b \in RenderedBlocks :
      LET B     == BlockAt(prog, b)
          k     == Len(B.instructions)
          N     == CeilTenth(k)
          L     == CeilOver(k, N)
          nodes == NodeLinesOf(out["dot"], B.address)
          line(j) == formatInstruction(InstrAt(prog, B.instructions[j + 1]))
      IN  k >= 1 =>
            /\ Len(nodes) = N
            /\ \A j \in 0..(k - 1) :
                 /\ j \div L < N
                 /\ \E m \in 1..Len(InstructionsIn(nodes[(j \div L) + 1])) :
                      InstructionsIn(nodes[(j \div L) + 1])[m] = line(j)
            /\ Flatten([i \in 1..N |-> InstructionsIn(nodes[i])])
                 = [j \in 1..k |-> line(j - 1)]
            /\ \A i \in 1..N :
                 /\ Len(InstructionsIn(nodes[i])) >= 1
                 /\ Len(InstructionsIn(nodes[i])) <= 10

\* createDot has rendered a block of 11 instructions as nodes of 6 and 5 lines, and a
\* block of 21 as three nodes of 7
C12_Witness ==
  /\ dotDone
  /\ \E b \in RenderedBlocks :
       /\ Len(BlockAt(prog, b).instructions) = 11
       /\ Len(InstructionsIn(NodeLinesOf(out["dot"], BlockAt(prog, b).address)[1])) = 6
       /\ Len(InstructionsIn(NodeLinesOf(out["dot"], BlockAt(prog, b).address)[2])) = 5
  /\ \E b \in RenderedBlocks :
       /\ Len(BlockAt(prog, b).instructions) = 21
       /\ Len(NodeLinesOf(out["dot"], BlockAt(prog, b).address)) = 3
       /\ Len(InstructionsIn(NodeLinesOf(out["dot"], BlockAt(prog, b).address)[3])) = 7

\* the names of the nodes that the node lines of o declare
DeclaredNodes(o) == {o[n].name : n \in {m \in 1..Len(o) : o[m].t = "node"}}

\* the block at address a (addresses are distinct)
BlockWithAddress(a) ==
  CHOOSE b \in 1..Len(prog.blocks) : Hex8(BlockAt(prog, b).address) = a

\* C13 (as claimed): every inter-block edge line of a createDot output names declared
\* nodes only: its source is the last node emitted for its block, its target the
\* first node emitted for the child; this for every block, also one without
\* instructions, one of a skipped subroutine and one listed in no subroutine.
C13_EdgesNameDeclaredNodes ==
  dotDone =>
    LET o == out["dot"]
    IN  \A n \in 1..Len(o) :
          o[n].t = "edge" =>
            LET from == NodeLinesOf(o, BlockAt(prog, BlockWithAddress(o[n].from.addr)).address)
                to   == NodeLinesOf(o, BlockAt(prog, BlockWithAddress(o[n].to.addr)).address)
            IN  /\ o[n].from \in DeclaredNodes(o)
                /\ o[n].to \in DeclaredNodes(o)
                /\ from # <<>> /\ o[n].from = from[Len(from)].name
                /\ to # <<>> /\ o[n].to = to[1].name

\* what does hold: an edge between two blocks that createDot renders, both with
\* instructions, goes from the last node of the one to the first node of the other
C13_EdgesBetweenRenderedBlocks ==
  dotDone =>
    LET o == out["dot"]
    IN  \A b \in RenderedBlocks : \A i \in 1..Len(BlockAt(prog, b).children) :
          LET B     == BlockAt(prog, b)
              child == BlockAt(prog, B.children[i])
              from  == NodeLinesOf(o, B.address)
              to    == NodeLinesOf(o, child.address)
          IN  (/\ B.children[i] \in RenderedBlocks
               /\ B.instructions # <<>> /\ child.instructions # <<>>)
              => /\ EdgeLinesFrom(o, B.address)[i].from = from[Len(from)].name
                 /\ EdgeLinesFrom(o, B.address)[i].to = to[1].name

(***************************************************************************)
(* Reading the listing and assembly output                                 *)
(***************************************************************************)
TextModes == {"listing", "assembly"}

Separator(m) == IF m = "listing" THEN listingSeparator ELSE assemblySeparator

\* the positions of the disassembly lines in o, in output order
RECURSIVE LinePositions(_, _)
LinePositions(o, n) ==
  IF n > Len(o) THEN <<>>
  ELSE (IF o[n].t = "line" THEN <<n>> ELSE <<>>) \o LinePositions(o, n + 1)

\* C8: in createListing and createAssembly the instructions are rendered in program
\* order, the separator of the mode follows an instruction's disassembly line at once
\* iff the instruction has no follower, and there are as many separators as
\* instructions without a follower.
C8_SeparatorIffNoFollower ==
  \A m \in TextModes :
    pc[m] = "done" =>
      LET o     == out[m]
          at    == LinePositions(o, 1)
          instr == prog.instructions
          follows(n) == n < Len(o) /\ o[n + 1] = Separator(m)
      IN  /\ Len(at) = Len(instr)
          /\ \A i \in 1..Len(instr) :
               /\ o[at[i]].ins = formatInstruction(instr[i])
               /\ m = "listing" => o[at[i]].addr = Hex8(instr[i].address)
               /\ follows(at[i]) <=> ~instr[i].follower
          /\ Cardinality({n \in 2..Len(o) : o[n] = Separator(m) /\ o[n - 1].t = "line"})
               = Cardinality({i \in 1..Len(instr) : ~instr[i].follower})
          /\ m = "listing" =>
               Cardinality({n \in 1..Len(o) : o[n] = listingSeparator})
                 = Cardinality({i \in 1..Len(instr) : ~instr[i].follower})

\* both modes have run on a program that has an instruction with a follower before
\* one without, and the separators stand where the claim puts them
C8_Witness ==
  /\ pc["listing"] = "done" /\ pc["assembly"] = "done"
  /\ Len(prog.instructions) >= 2
  /\ prog.instructions[1].follower /\ ~prog.instructions[2].follower
  /\ \E n \in 1..Len(out["assembly"]) - 2 :
       /\ out["assembly"][n].t = "line" /\ out["assembly"][n + 1].t = "line"
       /\ out["assembly"][n + 2] = assemblySeparator
  /\ \E n \in 1..Len(out["listing"]) - 2 :
       /\ out["listing"][n].t = "line" /\ out["listing"][n + 1].t = "line"
       /\ out["listing"][n + 2] = listingSeparator

(***************************************************************************)
(* Reading the NSS output                                                  *)
(***************************************************************************)
nssDone == pc["nss"] = "done"

\* the tokens written since the sink held n tokens
WrittenSince(n) == SubSeq(out["nss"], n + 1, Len(out["nss"]))

Count(o, P(_)) == Cardinality({n \in 1..Len(o) : P(o[n])})

\* the texts the Emitter writes that hold an opening brace, and the one with a closing
OpeningTexts == {" {\n", ") {\n", " else {\n"}

IsOpening(x) == x.t = "text" /\ x.v \in OpeningTexts

IsClosing(x) == x.t = "text" /\ x.v = "}"

\* C6: when createNSS completes, its output holds as many opening braces as closing
\* ones (the text of the external formatters taken as free of braces).
C6_BracesBalanced ==
  nssDone => Count(out["nss"], IsOpening) = Count(out["nss"], IsClosing)

\* createNSS completed on a program with an if, an else, a call and a return
C6_Witness ==
  /\ nssDone
  /\ Count(out["nss"], IsOpening) >= 3
  /\ Count(out["nss"], LAMBDA x : x = T(" else {\n")) >= 1
  /\ Count(out["nss"], LAMBDA x : x = T(");\n")) >= 1
  /\ Count(out["nss"], LAMBDA x : x = T("return ")) >= 1

Tabs(n) == [i \in 1..n |-> T("\t")]

RECURSIVE CommaJoined(_)
CommaJoined(names) ==
  IF Len(names) <= 1 THEN names
  ELSE <<names[1], T(", ")>> \o CommaJoined(Tail(names))

LastInstruction(b) ==
  InstrAt(prog, BlockAt(prog, b).instructions[Len(BlockAt(prog, b).instructions)])

\* the lines of all instructions of block b, in order, at indent n
InstructionLines(b, n) ==
  Flatten([i \in 1..Len(BlockAt(prog, b).instructions) |->
             writeNSSInstruction(InstrAt(prog, BlockAt(prog, b).instructions[i]), n)])

\* '<label of the last instruction's branch target>(<names joined by ", ">);'
CallLine(b, n) ==
  Tabs(n)
  \o formatJumpLabelName(InstrAt(prog, LastInstruction(b).branches[1])) \o <<T("(")>>
  \o CommaJoined([i \in 1..Len(LastInstruction(b).variables) |->
                    formatVariableName(LastInstruction(b).variables[i])])
  \o <<T(");\n")>>

\* The reconstruction of a block and of an IfCond control as claims C9 and C10 put
\* them.  They are defined on the blocks the writer has left, which is where the
\* claims are read.
RECURSIVE Reconstruction(_, _), IfText(_, _), Present(_, _), CallsFrom(_, _, _),
          ControlsFrom(_, _, _)
Present(b, n) == IF b = 0 THEN <<>> ELSE Reconstruction(b, n)

IfText(control, n) ==
  Tabs(n)
  \o <<T("if ("), formatVariableName(LastInstruction(control.ifCond).variables[1]),
       T(") {\n")>>
  \o Present(control.ifTrue, n + 1)
  \o Tabs(n) \o <<T("}")>>
  \o (IF control.ifElse # 0
      THEN <<T(" else {\n")>> \o Reconstruction(control.ifElse, n + 1)
           \o Tabs(n) \o <<T("}")>>
      ELSE <<>>)
  \o <<T("\n")>>
  \o Present(control.ifNext, n)

CallsFrom(b, n, i) ==
  IF i > Len(BlockAt(prog, b).childrenTypes) THEN <<>>
  ELSE (IF isSubRoutineCall(BlockAt(prog, b).childrenTypes[i])
        THEN CallLine(b, n) \o Reconstruction(BlockAt(prog, b).children[2], n)
        ELSE <<>>)
       \o CallsFrom(b, n, i + 1)

ControlsFrom(b, n, i) ==
  IF i > Len(BlockAt(prog, b).controls) THEN <<>>
  ELSE (CASE BlockAt(prog, b).controls[i].type = "IfCond" ->
               IfText(BlockAt(prog, b).controls[i], n)
          [] BlockAt(prog, b).controls[i].type = "Return" ->
               returnLine(prog, BlockAt(prog, b).controls[i], n)
          [] OTHER -> <<>>)
       \o ControlsFrom(b, n, i + 1)

Reconstruction(b, n) ==
  InstructionLines(b, n) \o CallsFrom(b, n, 1) \o ControlsFrom(b, n, 1)

\* writeNSSIfBlock is about to return
IfWritten == nssRunning /\ Top.f = "if" /\ Top.phase = "next"

\* C9: what the writer has emitted for an IfCond control at indent n, when it leaves
\* it, is 'if (<condition>) {', ifTrue at n+1, '}' at n, then ' else {' on the same
\* line, ifElse at n+1 and '}' at n only if ifElse is present, then a newline, then
\* ifNext at n if present.
C9_IfBlockOrder ==
  IfWritten => WrittenSince(Top.start) = IfText(Top.control, Top.indent)

\* an if with all three branches, and an if inside its ifTrue, has been written
C9_Witness ==
  /\ IfWritten
  /\ Top.control.ifTrue # 0 /\ Top.control.ifElse # 0 /\ Top.control.ifNext # 0
  /\ \E i \in 1..Len(BlockAt(prog, Top.control.ifTrue).controls) :
       BlockAt(prog, Top.control.ifTrue).controls[i].type = "IfCond"

\* writeNSSBlock is done with its first two loops, or with all three
CallsWritten == nssRunning /\ Top.f = "block" /\ Top.phase = "controls" /\ Top.i = 1

BlockWritten ==
  /\ nssRunning
  /\ Top.f = "block" /\ Top.phase = "controls"
  /\ Top.i > Len(BlockAt(prog, Top.b).controls)

\* C10: when the writer turns to the controls of a block B at indent n, it has emitted
\* the lines of B's instructions and then, per call entry of childrenTypes, the call
\* line and the reconstruction of children[1]; when it leaves B it has emitted these
\* and then the controls in order.
C10_BlockOrder ==
  /\ CallsWritten =>
       WrittenSince(Top.start)
         = InstructionLines(Top.b, Top.indent) \o CallsFrom(Top.b, Top.indent, 1)
  /\ BlockWritten => WrittenSince(Top.start) = Reconstruction(Top.b, Top.indent)

\* the writer leaves a block that has a call whose fallthrough is not the callee, and
\* controls, the fallthrough having controls of its own
C10_Witness ==
  /\ BlockWritten
  /\ \E i \in 1..Len(BlockAt(prog, Top.b).childrenTypes) :
       isSubRoutineCall(BlockAt(prog, Top.b).childrenTypes[i])
  /\ BlockAt(prog, Top.b).children[1] # BlockAt(prog, Top.b).children[2]
  /\ Len(BlockAt(prog, Top.b).controls) >= 1
  /\ BlockAt(prog, BlockAt(prog, Top.b).children[2]).controls # <<>>

\* every vector createNSS reads an element of has one: the program is well formed
EverySubRoutineHasBlocks ==
  \A s \in 1..Len(prog.subRoutines) : SubAt(prog, s).blocks # <<>>

\* the closing brace of every subroutine has been written and createNSS has returned
AllSubRoutinesClosed ==
  nssDone /\ Count(out["nss"], IsClosing) >= Len(prog.subRoutines)

RecursionTargets(b) ==
  LET B == BlockAt(prog, b)
  IN  (IF \E i \in 1..Len(B.childrenTypes) : isSubRoutineCall(B.childrenTypes[i])
       THEN {B.children[2]} ELSE {})
      \cup UNION {{B.controls[i].ifTrue, B.controls[i].ifElse, B.controls[i].ifNext} \ {0} :
                    i \in {c \in 1..Len(B.controls) : B.controls[c].type = "IfCond"}}

\* no recursion leads to a block that is not later in the program
RecursesForward ==
  \A b \in 1..Len(prog.blocks) : \A c \in RecursionTargets(b) : c > b

\* what does hold: createNSS returns when the recursions only lead forward
C14_ForwardRecursionTerminates ==
  (pc["nss"] = "running" /\ EverySubRoutineHasBlocks /\ RecursesForward)
    ~> AllSubRoutinesClosed

\* writeNSSBlock is on the call stack twice for the same block: what it calls depends
\* on the block alone (the indent only sets the tabs), so the recursion has come back
\* to where it was and goes on for ever
RecursionRepeats ==
  \E i \in 1..Len(stack) : \E j \in (i + 1)..Len(stack) :
    /\ stack[i].f = "block" /\ stack[j].f = "block"
    /\ stack[i].b = stack[j].b

\* the depth limit of the model cuts a recursion only after it has repeated an
\* activation, that is, only a recursion that does not end in the code either
C14_OverflowOnlyAfterRepetition ==
  [][pc'["nss"] = "overflow" => RecursionRepeats]_vars

\* what does hold as well: the recursion comes back to an activation only on a program
\* whose recursions do not all lead forward
C14_RepetitionNeedsBackwardRecursion == RecursionRepeats => ~RecursesForward

(***************************************************************************)
(* Reading the four outputs of one program                                 *)
(***************************************************************************)
IsBanner(x) == x.t = "info"

\* '; <N> bytes, <M> instructions' and the blank line, for the program at hand
Banner ==
  [t |-> "info", bytes |-> Numeral(prog.size), instrs |-> Numeral(Len(prog.instructions))]

HasBanner(m) == \E n \in 1..Len(out[m]) : out[m][n] = Banner

\* C5 (as claimed): for any two of the four modes that have run on the program, the
\* banner is in the output of both, and is the same in both.
C5_BannerInEveryMode ==
  \A m1 \in Modes : \A m2 \in Modes \ {m1} :
    pc[m1] = "done" /\ pc[m2] = "done" =>
      /\ HasBanner(m1) /\ HasBanner(m2)
      /\ SelectSeq(out[m1], IsBanner) = SelectSeq(out[m2], IsBanner)

\* C5 (amended): the output of createListing and of createAssembly starts with the
\* banner of the program and holds no other, so the banner is the same in the two;
\* the output of createDot and of createNSS holds no banner.
C5_BannerInListingAndAssembly ==
  /\ \A m \in TextModes :
       pc[m] = "done" => out[m] # <<>> /\ out[m][1] = Banner /\ Count(out[m], IsBanner) = 1
  /\ pc["listing"] = "done" /\ pc["assembly"] = "done" =>
       SelectSeq(out["listing"], IsBanner) = SelectSeq(out["assembly"], IsBanner)
  /\ \A m \in Modes \ TextModes : Count(out[m], IsBanner) = 0

\* the four modes have run on a program of 300 bytes and 10 instructions
C5_Witness ==
  /\ \A m \in Modes : pc[m] = "done"
  /\ prog.size = 300 /\ Len(prog.instructions) = 10
  /\ out["listing"][1] = out["assembly"][1]
  /\ out["dot"] # <<>> /\ out["nss"] # <<>>

IsStackDump(x) == x.t \in {"stackhead", "stackvar", "stackfoot"}

IsSignature(x) == x.t \in {"sig", "nsssig"}

NoStackDump == \A m \in TextModes : Count(out[m], IsStackDump) = 0

NoLabelSignature ==
  \A m \in TextModes : \A n \in 1..Len(out[m]) :
    out[m][n].t = "label" => out[m][n].sig = <<>>

NoClusterSignature ==
  \A n \in 1..Len(out["dot"]) :
    out["dot"][n].t = "clusterlabel" => Count(out["dot"][n].label, IsSignature) = 0

\* C7 (as claimed): without stack analysis no stack dump is emitted, and no signature
\* is put into a label, a DOT cluster label or an NSS subroutine header.
C7_NoSignatureAnywhere ==
  ~prog.hasStackAnalysis =>
    /\ NoStackDump
    /\ NoLabelSignature
    /\ NoClusterSignature
    /\ Count(out["nss"], IsSignature) = 0

\* C7 (amended): without stack analysis no stack dump is emitted by createListing or
\* createAssembly, no label carries a signature and no DOT cluster label is one; the
\* NSS header of every subroutine is what formatSignature returns for it, with or
\* without stack analysis.
C7_NoSignatureButNSSHeader ==
  /\ ~prog.hasStackAnalysis => NoStackDump /\ NoLabelSignature /\ NoClusterSignature
  /\ nssDone =>
       SelectSeq(out["nss"], IsSignature)
         = Flatten([s \in 1..Len(prog.subRoutines) |-> formatSignatureNSS(SubAt(prog, s))])

\* the four modes have run, with printStack set, on a program without stack analysis
\* that has a labelled subroutine whose own analysis finished and an instruction with
\* a stack
C7_Witness ==
  /\ ~prog.hasStackAnalysis
  /\ \A m \in Modes : pc[m] = "done"
  /\ arg["listing"] /\ arg["assembly"]
  /\ SubAt(prog, 1).type = "None" /\ SubAt(prog, 1).stackAnalyzeState = "Finished"
  /\ \E i \in 1..Len(prog.instructions) : prog.instructions[i].stack # <<>>
  /\ \E n \in 1..Len(out["listing"]) : out["listing"][n].t = "label"
  /\ \E n \in 1..Len(out["dot"]) : out["dot"][n].t = "clusterlabel"

=============================================================================
